---- MODULE Spec2Model ----
(***************************************************************************)
(* Alert Monitoring Engine of dogsight-ai (app/main.js).                   *)
(*                                                                         *)
(* The engine is the module-level object alertMonitor together with the    *)
(* three functions that mutate it: startAlertMonitoring (which installs    *)
(* the 5 s interval callback), stopAlertMonitoring and                     *)
(* processDetectionForAlert (called for every line the detection process   *)
(* prints).  Node runs the callbacks one at a time, so each one is an      *)
(* atomic action here.                                                     *)
(*                                                                         *)
(* Time is the value Date.now() returns, in milliseconds.  Coordinates     *)
(* are kept as integers: a normalised coordinate c is stored as c * Scale. *)
(***************************************************************************)
EXTENDS Integers, Sequences, FiniteSets, TLC

VARIABLES
    now,                    \* Date.now()
    enabled,                \* alertMonitor.enabled
    safeZone,               \* alertMonitor.safeZone
    lastSeenInZoneTime,     \* alertMonitor.lastSeenInZoneTime
    lastSeenAnywhereTime,   \* alertMonitor.lastSeenAnywhereTime
    wanderingAlertSent,     \* alertMonitor.wanderingAlertSent
    disappearedAlertSent,   \* alertMonitor.disappearedAlertSent
    dogDetected,            \* alertMonitor.dogDetected
    dogInZone,              \* alertMonitor.dogInZone
    checkInterval,          \* alertMonitor.checkInterval: Null, or when the live timer fires next
    apiBaseUrl,             \* alertMonitor.apiBaseUrl
    inFlight,               \* the requests of sendAlertNotification that await their response
    delivery,               \* the request whose response came in at the last step, and how it ended
    lastFrame,              \* how the last call of processDetectionForAlert ended, and what it was given
    trackOutsideSince,      \* alertMonitor.trackOutsideSince
    trackLastSeen,          \* alertMonitor.trackLastSeen
    trackSeenInside,        \* alertMonitor.trackSeenInside
    trackSeenInsideSince,   \* alertMonitor.trackSeenInsideSince
    trackSeenInsideHits,    \* alertMonitor.trackSeenInsideHits
    emitted,                \* the sendAlertNotification calls made by the last step
    startedAt,              \* Date.now() at the last startAlertMonitoring
    presenceSinceStart,     \* a frame with a presence detection was processed since the last start
    pendingDisappearance,   \* a disappearance was notified and no stable in-zone detection followed yet
    starts,                 \* how often startAlertMonitoring was called
    frameIgnored,           \* a frame arrived since monitoring was last stopped, and was dropped
    timers,                 \* the interval timers that are live, each named by the ordinal of the start that set it
    probe                   \* a call of a geometry function made on its own: its arguments and what it returned

monitorVars == <<enabled, safeZone, lastSeenInZoneTime, lastSeenAnywhereTime,
                 wanderingAlertSent, disappearedAlertSent, dogDetected, dogInZone>>

trackVars == <<trackOutsideSince, trackLastSeen, trackSeenInside,
               trackSeenInsideSince, trackSeenInsideHits>>

vars == <<now, enabled, safeZone, lastSeenInZoneTime, lastSeenAnywhereTime,
          wanderingAlertSent, disappearedAlertSent, dogDetected, dogInZone,
          checkInterval, trackOutsideSince, trackLastSeen, trackSeenInside,
          trackSeenInsideSince, trackSeenInsideHits, emitted,
          startedAt, presenceSinceStart, pendingDisappearance,
          starts, frameIgnored, apiBaseUrl, inFlight, delivery, lastFrame,
          timers, probe>>

----------------------------------------------------------------------------
(* Bounds of the model *)

\* Date.now() when the model starts; far enough from 0 that a zero
\* timestamp reads as "long ago", as it does on a real clock
Epoch == 1000000

\* the clock runs from Epoch to Epoch + MaxElapsed
MaxElapsed == 30000

\* track ids the detection process hands out
MaxTracks == 1

\* most detections in one frame
MaxDetections == 2

\* cap of the per-track in-zone hit counter
MaxInsideHits == 3

\* most calls of startAlertMonitoring
MaxStarts == 2

\* every session after the first is followed for this long
MaxRestartElapsed == 10000

\* a callback runs while at most this many responses are awaited
MaxAwaited == 0

\* the clock of the specification that keeps a trace of every frame runs
\* from Epoch to Epoch + MaxTracedElapsed
MaxTracedElapsed == 10000

\* the clock of the specification that follows a session up to its third
\* tick runs from Epoch to Epoch + MaxShortElapsed
MaxShortElapsed == 15000

----------------------------------------------------------------------------
(* Program constants *)

DISAPPEARED_MS == 10000
PER_TRACK_OUTSIDE_MS == 15000
GLOBAL_OUTSIDE_MS == 30000
KNOWN_PET_INZONE_TTL_MS == 600000
CHECK_INTERVAL_MS == 5000
MIN_HITS == 3
MIN_AREA == 2000
MIN_CONF == 25          \* 0.25, confidences are kept in hundredths
PRUNE_MS == 60000
MIN_INSIDE_HITS_TO_REGISTER == 2
FRAME_W == 640
FRAME_H == 480

\* the clock advances in steps of one timer period
TimeStep == CHECK_INTERVAL_MS

\* null / undefined
Null == -1

\* detection.id == null
NoId == 0

\* detection.bbox of a detection that has no bbox property
NoBbox == << >>

\* a polygon argument that is undefined or null
NoPolygon == [n \in {0} |-> 0]

TrackIds == 1..MaxTracks

\* alertMonitor.registeredTrackIds: declared empty and never written
registeredTrackIds == {}

\* a normalised coordinate c is the integer c * Scale; Scale is a common
\* multiple of 2 * FRAME_W and 2 * FRAME_H, so box centres are exact
Scale == 3840

----------------------------------------------------------------------------
(* Geometry *)

Pt(x, y) == [x |-> x, y |-> y]

\* EdgeIntersects that looks at the sides of the ray's line only
EdgeIntersects_SidesOnly(point, pi, pj) ==
    (pi.y > point.y) # (pj.y > point.y)

\* one edge of the ray-casting loop: vertices pi = polygon[i], pj = polygon[j]
EdgeIntersects(point, pi, pj) ==
    /\ (pi.y > point.y) # (pj.y > point.y)
    /\ LET d == pj.y - pi.y
           \* x < (xj - xi) * (y - yi) / (yj - yi) + xi, cleared of the division
           lhs == (point.x - pi.x) * d
           rhs == (pj.x - pi.x) * (point.y - pi.y)
       IN  IF d > 0 THEN lhs < rhs ELSE lhs > rhs

RECURSIVE RayCast(_, _, _, _)
\* the loop "for (i = 0, j = length - 1; i < length; j = i++)", 1-based
RayCast(point, polygon, i, inside) ==
    IF i > Len(polygon) THEN inside
    ELSE LET j == IF i = 1 THEN Len(polygon) ELSE i - 1
             flip == EdgeIntersects(point, polygon[i], polygon[j])
         IN  RayCast(point, polygon, i + 1, IF flip THEN ~inside ELSE inside)

\* isPointInPolygon without its first line
isPointInPolygon_NoShortcut(point, polygon) ==
    IF polygon = NoPolygon THEN FALSE
    ELSE RayCast(point, polygon, 1, FALSE)

isPointInPolygon(point, polygon) ==
    IF polygon = NoPolygon \/ Len(polygon) < 3 THEN TRUE
    ELSE RayCast(point, polygon, 1, FALSE)

\* centre of the bounding box, normalised by the frame size
BoxCenter(bbox, frameWidth, frameHeight) ==
    Pt(((bbox[1] + bbox[3]) * Scale) \div (2 * frameWidth),
       ((bbox[2] + bbox[4]) * Scale) \div (2 * frameHeight))

isDogInSafeZone(detection, frameWidth, frameHeight, zone) ==
    IF zone = NoPolygon \/ Len(zone) = 0 THEN TRUE
    ELSE isPointInPolygon(BoxCenter(detection.bbox, frameWidth, frameHeight), zone)

\* "const [x1, y1, x2, y2] = detection.bbox" throws a TypeError when the
\* detection has no bbox; the line is reached only with a zone
isDogInSafeZoneThrows(detection, zone) ==
    zone # NoPolygon /\ Len(zone) # 0 /\ detection.bbox = NoBbox

----------------------------------------------------------------------------
(* Inputs *)

\* safe zones the renderer passes in config.safeZone
SquareZone == <<Pt(960, 960), Pt(2880, 960), Pt(2880, 2880), Pt(960, 2880)>>
SquareZonePx == <<Pt(160 * Scale, 120 * Scale), Pt(480 * Scale, 120 * Scale),
                  Pt(480 * Scale, 360 * Scale), Pt(160 * Scale, 360 * Scale)>>
ConfigZones == {<< >>, SquareZone, SquareZonePx}

\* config.apiBaseUrl: the URL of the functions, or a falsy value (null,
\* undefined, the empty string), written NoUrl
Url == "https://functions"
NoUrl == ""
ConfigUrls == {Url, NoUrl}

\* bounding boxes in pixels of a 640 x 480 frame
BoxInside == <<280, 200, 360, 280>>      \* centre (320, 240)
BoxOutside == <<0, 0, 80, 80>>           \* centre (40, 40)

\* no geometry function has been called on its own
NoProbe == [call |-> "none", polygon |-> << >>, point |-> Pt(0, 0),
            bbox |-> BoxInside, returned |-> FALSE]

Det(id, cls, conf, area, hits, bbox) ==
    [id |-> id, class |-> cls, confidence |-> conf, area |-> area,
     hits |-> hits, bbox |-> bbox]

\* detections that pass the presence filter and the hit-count filter
StableDetections ==
    {Det(id, "dog", 80, 6400, MIN_HITS, bbox) :
        id \in TrackIds \cup {NoId}, bbox \in {BoxInside, BoxOutside}}

\* detections that pass the presence filter only
UnstableDetections ==
    {Det(1, "dog", 80, 6400, MIN_HITS - 1, BoxInside),
     Det(NoId, "dog", MIN_CONF, MIN_AREA, 0, BoxOutside)}

PresenceDetections == StableDetections \cup UnstableDetections

\* detections that fail the presence filter: wrong class, low confidence, small area
RejectedDetections ==
    {Det(1, "person", 80, 6400, MIN_HITS, BoxInside),
     Det(1, "dog", MIN_CONF - 1, 6400, MIN_HITS, BoxInside),
     Det(1, "dog", 80, MIN_AREA - 1, MIN_HITS, BoxInside)}

\* a stable detection that lacks its bounding box
MalformedDetections == {Det(1, "dog", 80, 6400, MIN_HITS, NoBbox)}

Detections == PresenceDetections \cup RejectedDetections \cup MalformedDetections

RECURSIVE SeqsUpTo(_, _)
SeqsUpTo(S, n) ==
    IF n = 0 THEN {<< >>}
    ELSE LET shorter == SeqsUpTo(S, n - 1)
         IN  shorter \cup {Append(s, d) : s \in {t \in shorter : Len(t) = n - 1}, d \in S}

\* the frames the detection process prints: any sequence of stable
\* detections, with or without a bounding box, and every other detection
\* alone (isArray is Array.isArray(data.detections))
Frames ==
    {[detections |-> ds, isArray |-> TRUE, frame_width |-> FRAME_W, frame_height |-> FRAME_H] :
        ds \in SeqsUpTo(StableDetections \cup MalformedDetections, MaxDetections)
               \cup {<<d>> : d \in UnstableDetections \cup RejectedDetections}}

\* the lines the detection process prints: the frames, and an object
\* without a detections array (an error report, say)
Lines ==
    Frames \cup {[detections |-> << >>, isArray |-> FALSE,
                  frame_width |-> FRAME_W, frame_height |-> FRAME_H]}

----------------------------------------------------------------------------
(* Helpers on the per-track objects (partial maps keyed by track id) *)

Has(m, tid) == tid \in DOMAIN m

Put(m, tid, v) == [t \in (DOMAIN m) \cup {tid} |-> IF t = tid THEN v ELSE m[t]]

Delete(m, tid) == [t \in (DOMAIN m) \ {tid} |-> m[t]]

EmptyMap == [t \in {} |-> 0]

OrZero(v) == IF v = Null THEN 0 ELSE v

----------------------------------------------------------------------------
(* Known-track checks shared by the interval callback and the frame path *)

\* KnownTrackOutside without the test of the seen-inside mark's age
KnownTrackOutside_NoTtl(tid, os, si, sis, t) ==
    /\ Has(os, tid)
    /\ os[tid] # 0
    /\ (Has(si, tid) /\ si[tid]) \/ tid \in registeredTrackIds

\* the loop body's "continue" tests: the track has an outside timer, was
\* seen inside (or is registered), and its seen-inside mark is not stale
KnownTrackOutside(tid, os, si, sis, t) ==
    /\ Has(os, tid)
    /\ os[tid] # 0
    /\ LET wasSeenInside == Has(si, tid) /\ si[tid]
           isRegistered == tid \in registeredTrackIds
           seenInsideSince == IF Has(sis, tid) THEN sis[tid] ELSE Null
       IN  /\ wasSeenInside \/ isRegistered
           /\ ~(wasSeenInside /\ (seenInsideSince = Null \/ seenInsideSince = 0
                                  \/ t - seenInsideSince > KNOWN_PET_INZONE_TTL_MS))

\* KnownOutsideThenMissing that asks for the wandering test's outside duration
KnownOutsideThenMissing_MinDuration(os, si, sis, t) ==
    \E tid \in DOMAIN os :
        KnownTrackOutside(tid, os, si, sis, t) /\ t - os[tid] >= PER_TRACK_OUTSIDE_MS

\* KnownOutsideThenMissing that counts registered tracks only
KnownOutsideThenMissing_RegisteredOnly(os, si, sis, t) ==
    \E tid \in DOMAIN os : Has(os, tid) /\ tid \in registeredTrackIds

\* knownOutsideThenMissing of the interval callback
KnownOutsideThenMissing(os, si, sis, t) ==
    \E tid \in DOMAIN os : KnownTrackOutside(tid, os, si, sis, t)

\* anyTrackOutsideLong of the interval callback and of the frame path
AnyTrackOutsideLong(os, si, sis, t) ==
    \E tid \in DOMAIN os :
        /\ KnownTrackOutside(tid, os, si, sis, t)
        /\ t - os[tid] >= PER_TRACK_OUTSIDE_MS

----------------------------------------------------------------------------
(* What is remembered of the last call of processDetectionForAlert *)

\* result: "no_bbox" when the call threw on a missing bbox.  A traced
\* call is remembered in full: result is then also "ignored" (monitoring
\* is off), "no_detections" (no detections array) or "processed" (the call
\* ran to its end), and unstableIds and stableIds are the track ids of the
\* presence detections with hits below MIN_HITS, and with hits of MIN_HITS
\* or more, stable is the list stableDetections, and rejected counts the
\* detections that are not presence detections
NoFrame == [result |-> "no_frame", unstableIds |-> {}, stableIds |-> {}, stable |-> << >>,
            rejected |-> 0]

----------------------------------------------------------------------------
(* sendAlertNotification *)

\* how a request ends: the function answered success, it answered with a
\* reason or an error, or fetch (or response.json) threw
Outcomes == {"success", "refused", "failed"}

NoDelivery == [kind |-> "none", outcome |-> "none"]

\* SinkConfigured that lets every call through
SinkConfigured_Always(url) == TRUE

\* the test on the function's first line
SinkConfigured(url) == url # NoUrl

\* the synchronous part of the calls a step makes: each one posts a request
\* if the URL is configured and returns at once otherwise
sendAlertNotification(calls, url) ==
    IF SinkConfigured(url) THEN calls ELSE << >>

\* the rest of the function, run when the response of request i is in:
\* it logs the outcome
Response(i, outcome) ==
    /\ delivery' = [kind |-> inFlight[i], outcome |-> outcome]
    /\ inFlight' = SubSeq(inFlight, 1, i - 1) \o SubSeq(inFlight, i + 1, Len(inFlight))
    /\ emitted' = << >>
    /\ lastFrame' = NoFrame
    /\ UNCHANGED <<now, monitorVars, trackVars, checkInterval, apiBaseUrl, startedAt,
                   presenceSinceStart, pendingDisappearance, starts, frameIgnored,
                   timers, probe>>

----------------------------------------------------------------------------
(* startAlertMonitoring / stopAlertMonitoring *)

\* "Normalize safeZone if it appears to be pixel coordinates": only the
\* first point's x is looked at
NormalizeSafeZone(zone) ==
    IF Len(zone) > 0 /\ zone[1].x > 1 * Scale
    THEN [i \in 1..Len(zone) |-> Pt(zone[i].x \div FRAME_W, zone[i].y \div FRAME_H)]
    ELSE zone

Init ==
    /\ now = Epoch
    /\ enabled = FALSE
    /\ safeZone = << >>
    /\ lastSeenInZoneTime = Null
    /\ lastSeenAnywhereTime = Null
    /\ wanderingAlertSent = FALSE
    /\ disappearedAlertSent = FALSE
    /\ dogDetected = FALSE
    /\ dogInZone = FALSE
    /\ checkInterval = Null
    /\ trackOutsideSince = EmptyMap
    /\ trackLastSeen = EmptyMap
    /\ trackSeenInside = EmptyMap
    /\ trackSeenInsideSince = EmptyMap
    /\ trackSeenInsideHits = EmptyMap
    /\ emitted = << >>
    /\ startedAt = Null
    /\ presenceSinceStart = FALSE
    /\ pendingDisappearance = FALSE
    /\ starts = 0
    /\ frameIgnored = FALSE
    /\ apiBaseUrl = NoUrl
    /\ inFlight = << >>
    /\ delivery = NoDelivery
    /\ lastFrame = NoFrame
    /\ timers = {}
    /\ probe = NoProbe

\* clearInterval that leaves the timer running
clearInterval_Forgets(live, handle) == live

\* clearInterval(handle): the timer fires no more
clearInterval(live, handle) == live \ {handle}

\* setInterval: one more live timer
setInterval(live, timer) == live \cup {timer}

\* the timer alertMonitor.checkInterval refers to when it is not null: the
\* one the latest start has set
TimerHandle == starts

\* StartInZoneTime that takes the clock, as for lastSeenAnywhereTime
StartInZoneTime_Now(t) == t

\* the value start writes to lastSeenInZoneTime
StartInZoneTime(t) == 0

startAlertMonitoring(zone, url) ==
    /\ starts < MaxStarts
    /\ Len(inFlight) <= MaxAwaited
    /\ apiBaseUrl' = url
    /\ delivery' = NoDelivery
    /\ lastFrame' = NoFrame
    /\ starts' = starts + 1
    /\ frameIgnored' = FALSE
    /\ enabled' = TRUE
    /\ safeZone' = NormalizeSafeZone(zone)
    /\ lastSeenInZoneTime' = StartInZoneTime(now)
    /\ lastSeenAnywhereTime' = now
    /\ wanderingAlertSent' = FALSE
    /\ disappearedAlertSent' = FALSE
    /\ dogDetected' = FALSE
    /\ dogInZone' = FALSE
    /\ trackOutsideSince' = EmptyMap
    /\ trackLastSeen' = EmptyMap
    /\ trackSeenInside' = EmptyMap
    \* clearInterval of the old timer, setInterval of a new one
    /\ checkInterval' = now + CHECK_INTERVAL_MS
    /\ timers' = setInterval(IF checkInterval # Null
                             THEN clearInterval(timers, TimerHandle)
                             ELSE timers,
                             starts + 1)
    /\ emitted' = << >>
    /\ startedAt' = now
    /\ presenceSinceStart' = FALSE
    /\ pendingDisappearance' = FALSE
    /\ UNCHANGED <<now, trackSeenInsideSince, trackSeenInsideHits, inFlight, probe>>

stopAlertMonitoring ==
    /\ Len(inFlight) <= MaxAwaited
    /\ delivery' = NoDelivery
    /\ lastFrame' = NoFrame
    /\ enabled' = FALSE
    /\ timers' = (IF checkInterval # Null
                  THEN clearInterval(timers, TimerHandle)
                  ELSE timers)
    /\ checkInterval' = Null
    /\ lastSeenInZoneTime' = Null
    /\ lastSeenAnywhereTime' = Null
    /\ wanderingAlertSent' = FALSE
    /\ disappearedAlertSent' = FALSE
    /\ dogDetected' = FALSE
    /\ dogInZone' = FALSE
    /\ trackOutsideSince' = EmptyMap
    /\ trackLastSeen' = EmptyMap
    /\ trackSeenInside' = EmptyMap
    /\ emitted' = << >>
    /\ pendingDisappearance' = FALSE
    /\ frameIgnored' = FALSE
    /\ UNCHANGED <<now, safeZone, trackSeenInsideSince, trackSeenInsideHits,
                   startedAt, presenceSinceStart, starts, apiBaseUrl, inFlight, probe>>

----------------------------------------------------------------------------
(* The interval callback *)

\* DisappearedDue without the test of the latch
DisappearedDue_NoLatch(sinceAnywhere, alreadySent) ==
    sinceAnywhere >= DISAPPEARED_MS

\* DisappearedDue with > in place of >=
DisappearedDue_Strict(sinceAnywhere, alreadySent) ==
    sinceAnywhere > DISAPPEARED_MS /\ ~alreadySent

\* the first test of the callback: the disappeared branch is taken
DisappearedDue(sinceAnywhere, alreadySent) ==
    sinceAnywhere >= DISAPPEARED_MS /\ ~alreadySent

\* TickWanderingDue without the test of dogDetected
TickWanderingDue_NoDetected(outsideLong, sinceInZone, alreadySent, detected) ==
    outsideLong /\ sinceInZone >= GLOBAL_OUTSIDE_MS /\ ~alreadySent

\* TickWanderingDue without the test of the latch
TickWanderingDue_NoLatch(outsideLong, sinceInZone, alreadySent, detected) ==
    outsideLong /\ sinceInZone >= GLOBAL_OUTSIDE_MS /\ detected

\* the last test of the callback: the wandering alert is raised
TickWanderingDue(outsideLong, sinceInZone, alreadySent, detected) ==
    outsideLong /\ sinceInZone >= GLOBAL_OUTSIDE_MS /\ ~alreadySent /\ detected

\* WanderingEvaluated without the "return"
WanderingEvaluated_NoReturn(disappearedFired) == TRUE

\* the "return" that ends the disappeared branch: the wandering logic
\* runs only on a tick whose disappeared branch was not taken
WanderingEvaluated(disappearedFired) == ~disappearedFired

\* what the callback's body does to the flags, and which notifications it sends
TickOutcome ==
    LET timeSinceInZone == now - OrZero(lastSeenInZoneTime)
        timeSinceAnywhere == now - OrZero(lastSeenAnywhereTime)
        disappearedFired ==
            enabled /\ DisappearedDue(timeSinceAnywhere, disappearedAlertSent)
        wanderingFired ==
            /\ enabled
            /\ WanderingEvaluated(disappearedFired)
            /\ TickWanderingDue(AnyTrackOutsideLong(trackOutsideSince, trackSeenInside,
                                                    trackSeenInsideSince, now),
                                timeSinceInZone, wanderingAlertSent, dogDetected)
        disappearedCalls ==
            IF ~disappearedFired THEN << >>
            ELSE IF KnownOutsideThenMissing(trackOutsideSince, trackSeenInside,
                                            trackSeenInsideSince, now)
            THEN <<"disappeared_after_outside">>
            ELSE <<"disappeared">>
        wanderingCalls == IF wanderingFired THEN <<"wandering">> ELSE << >>
    IN  [sent |-> disappearedCalls \o wanderingCalls,
         wandering |-> wanderingAlertSent \/ wanderingFired,
         disappeared |-> disappearedAlertSent \/ disappearedFired]

IsDisappearance(kind) == kind \in {"disappeared", "disappeared_after_outside"}

Tick ==
    /\ checkInterval # Null
    /\ TimerHandle \in timers
    /\ now >= checkInterval
    /\ Len(inFlight) <= MaxAwaited
    /\ checkInterval' = checkInterval + CHECK_INTERVAL_MS
    /\ \E r \in {TickOutcome} :
           /\ wanderingAlertSent' = r.wandering
           /\ disappearedAlertSent' = r.disappeared
           /\ emitted' = r.sent
           /\ inFlight' = inFlight \o sendAlertNotification(r.sent, apiBaseUrl)
           /\ pendingDisappearance' =
                  (pendingDisappearance \/ \E i \in 1..Len(r.sent) : IsDisappearance(r.sent[i]))
    /\ delivery' = NoDelivery
    /\ lastFrame' = NoFrame
    /\ UNCHANGED <<now, enabled, safeZone, lastSeenInZoneTime, lastSeenAnywhereTime,
                   dogDetected, dogInZone, trackVars, startedAt, presenceSinceStart,
                   starts, frameIgnored, apiBaseUrl, timers, probe>>

\* time passes; a timer that is due fires before the clock moves on
AdvanceWithin(horizon) ==
    /\ now + TimeStep <= Epoch + horizon
    /\ starts > 1 => now + TimeStep <= startedAt + MaxRestartElapsed
    /\ checkInterval = Null \/ now < checkInterval
    /\ Len(inFlight) <= MaxAwaited
    /\ now' = now + TimeStep
    /\ emitted' = << >>
    /\ delivery' = NoDelivery
    /\ lastFrame' = NoFrame
    /\ UNCHANGED <<monitorVars, trackVars, checkInterval, startedAt,
                   presenceSinceStart, pendingDisappearance, starts, frameIgnored,
                   apiBaseUrl, inFlight, timers, probe>>

----------------------------------------------------------------------------
(* processDetectionForAlert *)

PassesPresence(d) ==
    d.class = "dog" /\ d.confidence >= MIN_CONF /\ d.area >= MIN_AREA

\* PassesStability with > in place of >=
PassesStability_Strict(d) == d.hits > MIN_HITS

\* PassesStability of a function without the second tier
PassesStability_Any(d) == TRUE

PassesStability(d) == d.hits >= MIN_HITS

\* ReturnedCalls that looks at the wandering flag only
ReturnedCalls_WanderingOnly(wasWandering, wasDisappeared) ==
    IF wasWandering THEN <<"returned">> ELSE << >>

\* an in-zone detection resets both flags and sends "returned" if one was set
ReturnedCalls(wasWandering, wasDisappeared) ==
    IF wasWandering \/ wasDisappeared THEN <<"returned">> ELSE << >>

\* InZoneStep that registers the track at the threshold crossing only
InZoneStep_CrossingOnly(st, tid, t) ==
    LET hits == IF tid # NoId
                THEN (IF Has(st.sih, tid) THEN st.sih[tid] ELSE 0) + 1
                ELSE 0
        registers == tid # NoId /\ hits = MIN_INSIDE_HITS_TO_REGISTER
    IN  [st EXCEPT
            !.inSafe = TRUE,
            !.sih = IF tid # NoId THEN Put(@, tid, hits) ELSE @,
            !.si = IF registers THEN Put(@, tid, TRUE) ELSE @,
            !.sis = IF registers THEN Put(@, tid, t) ELSE @,
            !.os = IF tid # NoId /\ Has(@, tid) /\ @[tid] # 0 THEN Delete(@, tid) ELSE @,
            !.inZoneT = t,
            !.anywhereT = t,
            !.wand = FALSE,
            !.disap = FALSE,
            !.sent = @ \o ReturnedCalls(st.wand, st.disap)]

\* one stable detection that is inside the zone
InZoneStep(st, tid, t) ==
    LET hits == IF tid # NoId
                THEN (IF Has(st.sih, tid) THEN st.sih[tid] ELSE 0) + 1
                ELSE 0
        registers == tid # NoId /\ hits >= MIN_INSIDE_HITS_TO_REGISTER
    IN  [st EXCEPT
            !.inSafe = TRUE,
            !.sih = IF tid # NoId THEN Put(@, tid, hits) ELSE @,
            !.si = IF registers THEN Put(@, tid, TRUE) ELSE @,
            !.sis = IF registers THEN Put(@, tid, t) ELSE @,
            !.os = IF tid # NoId /\ Has(@, tid) /\ @[tid] # 0 THEN Delete(@, tid) ELSE @,
            !.inZoneT = t,
            !.anywhereT = t,
            !.wand = FALSE,
            !.disap = FALSE,
            !.sent = @ \o ReturnedCalls(st.wand, st.disap)]

\* OutZoneStep that restarts the outside timer at every detection
OutZoneStep_Restarts(st, tid, t) ==
    [st EXCEPT !.os = IF tid # NoId THEN Put(@, tid, t) ELSE @]

\* one stable detection that is outside the zone
OutZoneStep(st, tid, t) ==
    [st EXCEPT
        !.os = IF tid # NoId /\ ~(Has(@, tid) /\ @[tid] # 0) THEN Put(@, tid, t) ELSE @]

\* StableLoop that is left after its first detection, wherever that one is
StableLoop_FirstOnly(stable, i, st, frame, zone, t) ==
    IF i > Len(stable) THEN st
    ELSE LET detection == stable[i]
             tid == detection.id
             seen == [st EXCEPT !.ls = IF tid # NoId THEN Put(@, tid, t) ELSE @]
         IN  IF isDogInSafeZoneThrows(detection, zone)
             THEN [seen EXCEPT !.threw = TRUE]
             ELSE IF isDogInSafeZone(detection, frame.frame_width, frame.frame_height, zone)
             THEN InZoneStep(seen, tid, t)
             ELSE OutZoneStep(seen, tid, t)

RECURSIVE StableLoop(_, _, _, _, _, _)
\* "for (const detection of stableDetections)", left at the first in-zone
\* one, or by the exception of a detection without a bbox
StableLoop(stable, i, st, frame, zone, t) ==
    IF i > Len(stable) THEN st
    ELSE LET detection == stable[i]
             tid == detection.id
             seen == [st EXCEPT !.ls = IF tid # NoId THEN Put(@, tid, t) ELSE @]
         IN  IF isDogInSafeZoneThrows(detection, zone)
             THEN [seen EXCEPT !.threw = TRUE]
             ELSE IF isDogInSafeZone(detection, frame.frame_width, frame.frame_height, zone)
             THEN InZoneStep(seen, tid, t)
             ELSE StableLoop(stable, i + 1, OutZoneStep(seen, tid, t), frame, zone, t)

\* PruneStale that forgets the last-seen entry only
PruneStale_LastSeenOnly(st, t) ==
    LET stale == {tid \in DOMAIN st.ls : t - st.ls[tid] > PRUNE_MS}
    IN  [st EXCEPT !.ls = [tid \in (DOMAIN @) \ stale |-> @[tid]]]

\* "Prune stale track memory"
PruneStale(st, t) ==
    LET stale == {tid \in DOMAIN st.ls : t - st.ls[tid] > PRUNE_MS}
        Keep(m) == [tid \in (DOMAIN m) \ stale |-> m[tid]]
    IN  [st EXCEPT !.ls = Keep(@), !.os = Keep(@), !.si = Keep(@),
                   !.sis = Keep(@), !.sih = Keep(@)]

\* "Prune stale seen-inside marks"
PruneSeenInside(st, t) ==
    LET stale == {tid \in DOMAIN st.sis : t - st.sis[tid] > KNOWN_PET_INZONE_TTL_MS}
        Keep(m) == [tid \in (DOMAIN m) \ stale |-> m[tid]]
    IN  [st EXCEPT !.si = Keep(@), !.sis = Keep(@), !.sih = Keep(@)]

\* FrameWanderingDue of a frame path that raises no alert
FrameWanderingDue_Never(outsideLong, sinceInZone, alreadySent) == FALSE

\* FrameWanderingDue without the test of the latch
FrameWanderingDue_NoLatch(outsideLong, sinceInZone, alreadySent) ==
    outsideLong /\ sinceInZone >= GLOBAL_OUTSIDE_MS

\* the frame path's wandering test
FrameWanderingDue(outsideLong, sinceInZone, alreadySent) ==
    outsideLong /\ sinceInZone >= GLOBAL_OUTSIDE_MS /\ ~alreadySent

\* NotInZoneStep that leaves the disappeared flag latched
NotInZoneStep_KeepsDisappeared(st, t) ==
    LET timeSinceInZone == t - OrZero(st.inZoneT)
        fire == FrameWanderingDue(AnyTrackOutsideLong(st.os, st.si, st.sis, t),
                                  timeSinceInZone, st.wand)
    IN  [st EXCEPT
            !.wand = IF fire THEN TRUE ELSE @,
            !.sent = IF fire THEN @ \o <<"wandering">> ELSE @]

\* "If dog is detected but none in-zone": wandering, then the disappeared flag is dropped
NotInZoneStep(st, t) ==
    LET timeSinceInZone == t - OrZero(st.inZoneT)
        fire == FrameWanderingDue(AnyTrackOutsideLong(st.os, st.si, st.sis, t),
                                  timeSinceInZone, st.wand)
    IN  [st EXCEPT
            !.wand = IF fire THEN TRUE ELSE @,
            !.sent = IF fire THEN @ \o <<"wandering">> ELSE @,
            !.disap = FALSE]

\* the whole function body once the guard on its first line has passed;
\* an exception leaves the function where it is thrown
FrameOutcome(frame, t) ==
    LET rawPresenceDetections == SelectSeq(frame.detections, PassesPresence)
        stableDetections == SelectSeq(rawPresenceDetections, PassesStability)
        detected == Len(rawPresenceDetections) > 0
        st0 == [os |-> trackOutsideSince, ls |-> trackLastSeen, si |-> trackSeenInside,
                sis |-> trackSeenInsideSince, sih |-> trackSeenInsideHits,
                inZoneT |-> lastSeenInZoneTime,
                anywhereT |-> IF detected THEN t ELSE lastSeenAnywhereTime,
                wand |-> wanderingAlertSent, disap |-> disappearedAlertSent,
                detected |-> detected, inSafe |-> FALSE, sent |-> << >>,
                threw |-> FALSE]
        looped == StableLoop(stableDetections, 1, st0, frame, safeZone, t)
        pruned == PruneSeenInside(PruneStale(looped, t), t)
    IN  IF looped.threw THEN looped
        ELSE IF pruned.inSafe THEN pruned
        ELSE IF detected THEN NotInZoneStep(pruned, t)
        ELSE pruned

\* what lastFrame keeps of a frame that passed the guard
FrameTrace(frame, threw, traced) ==
    LET presence == SelectSeq(frame.detections, PassesPresence)
    IN  IF ~traced
        THEN [NoFrame EXCEPT !.result = IF threw THEN "no_bbox" ELSE "no_frame"]
        ELSE
        [result |-> IF threw THEN "no_bbox" ELSE "processed",
         unstableIds |-> {presence[i].id : i \in {j \in 1..Len(presence) : presence[j].hits < MIN_HITS}},
         stableIds |-> {presence[i].id : i \in {j \in 1..Len(presence) : presence[j].hits >= MIN_HITS}},
         stable |-> SelectSeq(presence, PassesStability),
         rejected |-> Len(frame.detections) - Len(presence)]

\* FrameAccepted without the test of alertMonitor.enabled
FrameAccepted_NoGuard(frame) == TRUE

\* the guard on the function's first line
FrameAccepted(frame) == enabled /\ frame.isArray

processDetectionForAlert(frame, traced) ==
    /\ Len(inFlight) <= MaxAwaited
    /\ IF FrameAccepted(frame)
       THEN \E r \in {FrameOutcome(frame, now)} :
                /\ \A tid \in DOMAIN r.sih : r.sih[tid] <= MaxInsideHits
                /\ lastSeenInZoneTime' = r.inZoneT
                /\ lastSeenAnywhereTime' = r.anywhereT
                /\ wanderingAlertSent' = r.wand
                /\ disappearedAlertSent' = r.disap
                /\ dogDetected' = r.detected
                /\ dogInZone' = (IF r.threw THEN dogInZone ELSE r.inSafe)
                /\ trackOutsideSince' = r.os
                /\ trackLastSeen' = r.ls
                /\ trackSeenInside' = r.si
                /\ trackSeenInsideSince' = r.sis
                /\ trackSeenInsideHits' = r.sih
                /\ emitted' = r.sent
                /\ inFlight' = inFlight \o sendAlertNotification(r.sent, apiBaseUrl)
                /\ presenceSinceStart' = (presenceSinceStart \/ r.detected)
                /\ pendingDisappearance' = (pendingDisappearance /\ ~r.inSafe)
                /\ frameIgnored' = frameIgnored
                /\ lastFrame' = FrameTrace(frame, r.threw, traced)
       ELSE /\ emitted' = << >>
            /\ frameIgnored' = (frameIgnored \/ ~enabled)
            /\ lastFrame' = [NoFrame EXCEPT !.result = IF ~traced THEN "no_frame"
                                                      ELSE IF frame.isArray THEN "ignored"
                                                      ELSE "no_detections"]
            /\ UNCHANGED <<lastSeenInZoneTime, lastSeenAnywhereTime, wanderingAlertSent,
                           disappearedAlertSent, dogDetected, dogInZone, trackVars,
                           presenceSinceStart, pendingDisappearance, inFlight>>
    /\ delivery' = NoDelivery
    /\ UNCHANGED <<now, enabled, safeZone, checkInterval, startedAt, starts, apiBaseUrl,
                   timers, probe>>

----------------------------------------------------------------------------
(* The system *)

Start == \E zone \in ConfigZones, url \in ConfigUrls : startAlertMonitoring(zone, url)

Stop == stopAlertMonitoring

Frame == \E frame \in Frames : processDetectionForAlert(frame, FALSE)

TracedFrame == \E frame \in Lines : processDetectionForAlert(frame, TRUE)

Advance == AdvanceWithin(MaxElapsed)

TracedAdvance == AdvanceWithin(MaxTracedElapsed)

Deliver == \E i \in 1..Len(inFlight), outcome \in Outcomes : Response(i, outcome)

Next == Start \/ Stop \/ Frame \/ Tick \/ Advance \/ Deliver

Spec == Init /\ [][Next]_vars

\* the same program followed up to the third tick of its first session
ShortAdvance == AdvanceWithin(MaxShortElapsed)

ShortNext == Start \/ Stop \/ Frame \/ Tick \/ ShortAdvance \/ Deliver

SpecShort == Init /\ [][ShortNext]_vars

\* a session that has been running for a while when the model starts.
\* Track 1 was seen in the zone twice at seenInsideAt, outside the zone
\* from outsideAt to lastSeenAt, and an anonymous dog has been in the zone
\* in every frame up to now, so that no alert is latched.
AgedSession(sessionStart, seenInsideAt, outsideAt, lastSeenAt) ==
    /\ now = Epoch
    /\ enabled = TRUE
    /\ safeZone = SquareZone
    /\ lastSeenInZoneTime = Epoch
    /\ lastSeenAnywhereTime = Epoch
    /\ wanderingAlertSent = FALSE
    /\ disappearedAlertSent = FALSE
    /\ dogDetected = TRUE
    /\ dogInZone = TRUE
    /\ checkInterval = Epoch + CHECK_INTERVAL_MS
    /\ trackOutsideSince = Put(EmptyMap, 1, outsideAt)
    /\ trackLastSeen = Put(EmptyMap, 1, lastSeenAt)
    /\ trackSeenInside = Put(EmptyMap, 1, TRUE)
    /\ trackSeenInsideSince = Put(EmptyMap, 1, seenInsideAt)
    /\ trackSeenInsideHits = Put(EmptyMap, 1, MIN_INSIDE_HITS_TO_REGISTER)
    /\ emitted = << >>
    /\ startedAt = sessionStart
    /\ presenceSinceStart = TRUE
    /\ pendingDisappearance = FALSE
    /\ starts = 1
    /\ frameIgnored = FALSE
    /\ apiBaseUrl = Url
    /\ inFlight = << >>
    /\ delivery = NoDelivery
    /\ lastFrame = NoFrame
    /\ timers = {1}
    /\ probe = NoProbe

\* track 1 was last seen 50 s ago; or it has been outside, in view, for
\* 9 min 45 s and its seen-inside mark is 9 min 50 s old
InitAged ==
    \/ AgedSession(Epoch - 55000, Epoch - 55000, Epoch - 50000, Epoch - 50000)
    \/ AgedSession(Epoch - 595000, Epoch - 590000, Epoch - 585000, Epoch)

SpecAged == InitAged /\ [][ShortNext]_vars

\* track 1 was last seen 60 s ago, outside the zone
InitTracedAged == AgedSession(Epoch - 65000, Epoch - 65000, Epoch - 60000, Epoch - 60000)

\* the same program over a shorter time, with a trace of every line the
\* detection process prints
TracedNext == Start \/ Stop \/ TracedFrame \/ Tick \/ TracedAdvance \/ Deliver

SpecTraced == Init /\ [][TracedNext]_vars

SpecTracedAged == InitTracedAged /\ [][TracedNext]_vars

\* a zone drawn in pixels whose first corner lies on the frame's left edge
EdgeZonePx == <<Pt(0, 120 * Scale), Pt(480 * Scale, 120 * Scale),
                Pt(480 * Scale, 360 * Scale), Pt(0, 360 * Scale)>>

SuppliedZones == ConfigZones \cup {EdgeZonePx}

StartSupplied ==
    \E zone \in SuppliedZones, url \in ConfigUrls : startAlertMonitoring(zone, url)

\* the same program over the shorter time, started with any of the
\* supplied zones
ZonesNext == StartSupplied \/ Stop \/ Frame \/ Tick \/ TracedAdvance \/ Deliver

SpecZones == Init /\ [][ZonesNext]_vars

\* the frames that carry at most one detection
SingleFrames == {frame \in Frames : Len(frame.detections) <= 1}

SingleFrame == \E frame \in SingleFrames : processDetectionForAlert(frame, FALSE)

\* a start with the URL of the functions configured
StartConfigured == \E zone \in ConfigZones : startAlertMonitoring(zone, Url)

\* the same program over the whole of MaxElapsed, with the functions
\* configured and a detection process that reports one dog at a time
LongNext == StartConfigured \/ Stop \/ SingleFrame \/ Tick \/ Advance \/ Deliver

SpecLong == Init /\ [][LongNext]_vars

----------------------------------------------------------------------------
(* The geometry functions called on their own *)

UnitSquare == <<Pt(0, 0), Pt(Scale, 0), Pt(Scale, Scale), Pt(0, Scale)>>

\* a square on its corner: the ray from its centre runs through a vertex
Diamond == <<Pt(Scale \div 2, 0), Pt(Scale, Scale \div 2),
             Pt(Scale \div 2, Scale), Pt(0, Scale \div 2)>>

\* the unit square with a notch cut from its top edge down to its centre
Notched == <<Pt(0, 0), Pt(Scale, 0), Pt(Scale, Scale),
             Pt(Scale \div 2, Scale \div 2), Pt(0, Scale)>>

\* no polygon, and polygons of 0, 1 and 2 points
ShortPolygons == {NoPolygon, << >>, <<Pt(0, 0)>>, <<Pt(0, 0), Pt(Scale, Scale)>>}

ProbePolygons == ShortPolygons \cup {UnitSquare, SquareZone, Diamond, Notched}

\* the points of a quarter-unit grid from (0, 0) to (1.5, 1)
ProbePoints ==
    {Pt((i * Scale) \div 4, (j * Scale) \div 4) : i \in 0..6, j \in 0..4}

ProbeBoxes == {BoxInside, BoxOutside}

InitGeometry ==
    /\ now = Epoch
    /\ enabled = FALSE
    /\ safeZone = << >>
    /\ lastSeenInZoneTime = Null
    /\ lastSeenAnywhereTime = Null
    /\ wanderingAlertSent = FALSE
    /\ disappearedAlertSent = FALSE
    /\ dogDetected = FALSE
    /\ dogInZone = FALSE
    /\ checkInterval = Null
    /\ trackOutsideSince = EmptyMap
    /\ trackLastSeen = EmptyMap
    /\ trackSeenInside = EmptyMap
    /\ trackSeenInsideSince = EmptyMap
    /\ trackSeenInsideHits = EmptyMap
    /\ emitted = << >>
    /\ startedAt = Null
    /\ presenceSinceStart = FALSE
    /\ pendingDisappearance = FALSE
    /\ starts = 0
    /\ frameIgnored = FALSE
    /\ apiBaseUrl = NoUrl
    /\ inFlight = << >>
    /\ delivery = NoDelivery
    /\ lastFrame = NoFrame
    /\ timers = {}
    /\ probe \in {[NoProbe EXCEPT !.polygon = polygon, !.point = point, !.bbox = bbox] :
                      polygon \in ProbePolygons, point \in ProbePoints, bbox \in ProbeBoxes}

\* isPointInPolygon(probe.point, probe.polygon) is called (again)
CallIsPointInPolygon ==
    /\ probe' = [probe EXCEPT !.call = "isPointInPolygon",
                              !.returned = isPointInPolygon(probe.point, probe.polygon)]
    /\ UNCHANGED <<now, monitorVars, trackVars, checkInterval, apiBaseUrl, inFlight,
                   delivery, lastFrame, emitted, startedAt, presenceSinceStart,
                   pendingDisappearance, starts, frameIgnored, timers>>

\* isDogInSafeZone is called (again) for a detection with the box probe.bbox
\* in a 640 x 480 frame
CallIsDogInSafeZone ==
    /\ probe' = [probe EXCEPT !.call = "isDogInSafeZone",
                              !.returned = isDogInSafeZone(Det(NoId, "dog", 80, 6400, MIN_HITS, probe.bbox),
                                                          FRAME_W, FRAME_H, probe.polygon)]
    /\ UNCHANGED <<now, monitorVars, trackVars, checkInterval, apiBaseUrl, inFlight,
                   delivery, lastFrame, emitted, startedAt, presenceSinceStart,
                   pendingDisappearance, starts, frameIgnored, timers>>

NextGeometry == CallIsPointInPolygon \/ CallIsDogInSafeZone

SpecGeometry == InitGeometry /\ [][NextGeometry]_vars

----------------------------------------------------------------------------
(* Vocabulary of the properties *)

\* the polygon's edge that ends at vertex i is crossed by the horizontal
\* ray from the point towards +x: the edge's lower end is on the ray's
\* line or below it, its upper end is above it, and the point is strictly
\* to the left of the edge
RayCrossesEdge(point, polygon, i) ==
    LET a == polygon[i]
        b == polygon[IF i = 1 THEN Len(polygon) ELSE i - 1]
        lo == IF a.y <= b.y THEN a ELSE b
        hi == IF a.y <= b.y THEN b ELSE a
    IN  /\ lo.y <= point.y /\ point.y < hi.y
        /\ (hi.x - lo.x) * (point.y - lo.y) - (hi.y - lo.y) * (point.x - lo.x) > 0

EdgesCrossed(point, polygon) ==
    Cardinality({i \in 1..Len(polygon) : RayCrossesEdge(point, polygon, i)})

Sends(kind, calls) == \E i \in 1..Len(calls) : calls[i] = kind

SendsDisappearance(calls) == \E i \in 1..Len(calls) : IsDisappearance(calls[i])

\* a step of startAlertMonitoring
StartStep == starts' = starts + 1

\* a step of stopAlertMonitoring that ends a session
StopStep == enabled /\ ~enabled'

\* a firing of the interval timer
TickStep ==
    /\ checkInterval # Null
    /\ checkInterval' = checkInterval + CHECK_INTERVAL_MS
    /\ starts' = starts

\* a frame processed, while monitoring is enabled, to the end of the function
FrameStep ==
    /\ enabled /\ enabled'
    /\ starts' = starts
    /\ now' = now
    /\ checkInterval' = checkInterval
    /\ delivery' = NoDelivery
    /\ lastFrame'.result \in {"no_frame", "processed"}

\* a frame that is malformed: it has no detections array, or its
\* processing threw on a detection without a bbox
MalformedFrameStep == lastFrame'.result \in {"no_detections", "no_bbox"}

\* the step processed a frame in which the detections of exactly the
\* tracks in stableSet were used as stable ones: with none, no zone
\* residency is decided and no per-track timer is touched; otherwise the
\* frame is found in the zone or every stable track's last-seen entry is
\* the clock
UsedAsStable(stableSet) ==
    /\ stableSet = {} =>
          /\ ~dogInZone'
          /\ lastSeenInZoneTime' = lastSeenInZoneTime
          /\ DOMAIN trackOutsideSince' \subseteq DOMAIN trackOutsideSince
          /\ \A tid \in DOMAIN trackLastSeen' :
                Has(trackLastSeen, tid) /\ trackLastSeen'[tid] = trackLastSeen[tid]
    /\ stableSet # {} =>
          \/ dogInZone'
          \/ \A tid \in stableSet \ {NoId} :
                Has(trackLastSeen', tid) /\ trackLastSeen'[tid] = now

\* the step has counted an in-zone hit of the track: a stable detection
\* of it was found in the zone
InZoneHitOf(tid) ==
    /\ dogInZone'
    /\ Has(trackLastSeen', tid) /\ trackLastSeen'[tid] = now
    /\ Has(trackSeenInsideHits', tid)
    /\ trackSeenInsideHits'[tid] =
          (IF Has(trackSeenInsideHits, tid) THEN trackSeenInsideHits[tid] ELSE 0) + 1

\* the step has pruned the track: its last-seen entry was older than
\* PRUNE_MS and is gone
PrunedStale(tid) ==
    /\ Has(trackLastSeen, tid) /\ now - trackLastSeen[tid] > PRUNE_MS
    /\ ~Has(trackLastSeen', tid)

\* stable detection i of the frame just processed lies in the zone
StableInZone(i) ==
    /\ ~isDogInSafeZoneThrows(lastFrame'.stable[i], safeZone)
    /\ isDogInSafeZone(lastFrame'.stable[i], FRAME_W, FRAME_H, safeZone)

\* the place in stableDetections of the first detection in the zone, or
\* the length of the list if none is
LastExamined ==
    LET inZone == {i \in 1..Len(lastFrame'.stable) : StableInZone(i)}
    IN  IF inZone = {} THEN Len(lastFrame'.stable)
        ELSE CHOOSE i \in inZone : \A j \in inZone : i <= j

\* the track ids of the stable detections from place a to place b
StableIdsFrom(a, b) ==
    {lastFrame'.stable[i].id : i \in a..b} \ {NoId}

\* the step has left the track's entries as they were, or has pruned the
\* track
TrackLeftAlone(tid) ==
    \/ PrunedStale(tid)
    \/ /\ Has(trackLastSeen', tid) = Has(trackLastSeen, tid)
       /\ Has(trackLastSeen, tid) => trackLastSeen'[tid] = trackLastSeen[tid]
       /\ Has(trackOutsideSince', tid) = Has(trackOutsideSince, tid)
       /\ Has(trackOutsideSince, tid) => trackOutsideSince'[tid] = trackOutsideSince[tid]
       /\ Has(trackSeenInsideHits', tid) = Has(trackSeenInsideHits, tid)
       /\ Has(trackSeenInsideHits, tid) => trackSeenInsideHits'[tid] = trackSeenInsideHits[tid]

\* the step has dropped the track's seen-inside mark because it was older
\* than the TTL, and has left its timers alone
SeenInsideExpired(tid) ==
    /\ Has(trackSeenInsideSince, tid)
    /\ now - trackSeenInsideSince[tid] > KNOWN_PET_INZONE_TTL_MS
    /\ ~Has(trackSeenInside', tid)
    /\ ~Has(trackSeenInsideSince', tid)
    /\ ~Has(trackSeenInsideHits', tid)
    /\ Has(trackLastSeen', tid) = Has(trackLastSeen, tid)
    /\ Has(trackLastSeen, tid) => trackLastSeen'[tid] = trackLastSeen[tid]
    /\ Has(trackOutsideSince', tid) = Has(trackOutsideSince, tid)
    /\ Has(trackOutsideSince, tid) => trackOutsideSince'[tid] = trackOutsideSince[tid]

\* the step has changed no entry of any track, apart from the entries
\* the two prune passes drop
NoTrackUpdated ==
    \A tid \in TrackIds :
        \/ PrunedStale(tid)
        \/ SeenInsideExpired(tid)
        \/ /\ TrackLeftAlone(tid)
           /\ Has(trackSeenInside', tid) = Has(trackSeenInside, tid)
           /\ Has(trackSeenInside, tid) => trackSeenInside'[tid] = trackSeenInside[tid]
           /\ Has(trackSeenInsideSince', tid) = Has(trackSeenInsideSince, tid)
           /\ Has(trackSeenInsideSince, tid) =>
                  trackSeenInsideSince'[tid] = trackSeenInsideSince[tid]

\* the response of a request has come in
ResponseStep == delivery' # NoDelivery

\* the wandering condition of the two paths holds in the current state
WanderingConditionNow ==
    /\ AnyTrackOutsideLong(trackOutsideSince, trackSeenInside, trackSeenInsideSince, now)
    /\ now - OrZero(lastSeenInZoneTime) >= GLOBAL_OUTSIDE_MS

\* the track carries a seen-inside mark that is not older than the TTL at time t
FreshlyKnown(tid, si, sis, t) ==
    /\ tid \in DOMAIN si /\ si[tid]
    /\ tid \in DOMAIN sis /\ sis[tid] # 0
    /\ t - sis[tid] <= KNOWN_PET_INZONE_TTL_MS

\* no track with an outside timer carries a fresh seen-inside mark
NoFreshTrackOutside(os, si, sis, t) ==
    \A tid \in DOMAIN os : ~FreshlyKnown(tid, si, sis, t)

\* the track is known at time t: freshly seen inside, or registered
Known(tid, si, sis, t) ==
    FreshlyKnown(tid, si, sis, t) \/ (tid \in registeredTrackIds /\ tid \notin DOMAIN si)

----------------------------------------------------------------------------
(* Properties *)

\* C1: while wanderingAlertSent is true no step sends a wandering
\* notification, and the flag goes back to false only on a frame with a
\* stable in-zone detection, on a start or on a stop
C1_WanderingDebounce ==
    [][/\ wanderingAlertSent => ~Sends("wandering", emitted')
       /\ (wanderingAlertSent /\ ~wanderingAlertSent')
              => ((FrameStep /\ dogInZone') \/ StartStep \/ StopStep)]_vars

\* the flag is latched, the wandering condition still holds, and the tick
\* of this instant has run without sending anything
C1_Witness ==
    /\ enabled /\ wanderingAlertSent /\ dogDetected
    /\ WanderingConditionNow
    /\ checkInterval > now
    /\ emitted = << >>

C3_ReturnedAfterDisappearance ==
    [][(FrameStep /\ dogInZone' /\ pendingDisappearance)
          => Sends("returned", emitted')]_vars

\* C4: a tick that finds no presence for DISAPPEARED_MS, while a known
\* track has been outside for PER_TRACK_OUTSIDE_MS or longer, sends
\* disappeared_after_outside and nothing else and leaves the wandering flag
\* alone; every frame with a presence detection that is processed to the
\* end leaves the disappeared flag clear, and only a tick that finds
\* DISAPPEARED_MS without presence latches it, so that tick finds it
\* unlatched; and as long as the subject was last seen at most 20 s after
\* its last in-zone sighting, no tick before that one sends a wandering
\* notification
C4_DisappearedAfterOutsideFirst ==
    /\ [][/\ (FrameStep /\ dogDetected') => ~disappearedAlertSent'
          /\ (~disappearedAlertSent /\ disappearedAlertSent')
                => (TickStep /\ now - OrZero(lastSeenAnywhereTime) >= DISAPPEARED_MS)]_vars
    /\ [][/\ (/\ TickStep
              /\ enabled
              /\ ~disappearedAlertSent
              /\ now - OrZero(lastSeenAnywhereTime) >= DISAPPEARED_MS
              /\ AnyTrackOutsideLong(trackOutsideSince, trackSeenInside,
                                     trackSeenInsideSince, now))
                => /\ emitted' = <<"disappeared_after_outside">>
                   /\ disappearedAlertSent'
                   /\ wanderingAlertSent' = wanderingAlertSent
          /\ (/\ TickStep
              /\ enabled
              /\ ~disappearedAlertSent
              /\ lastSeenInZoneTime > 0
              /\ lastSeenAnywhereTime - lastSeenInZoneTime <= 20000)
                => ~Sends("wandering", emitted')]_vars

\* the tick has fired for a track outside for 20 s and then unseen for
\* 10 s, at an instant where the wandering condition held as well
C4_Witness ==
    /\ emitted = <<"disappeared_after_outside">>
    /\ disappearedAlertSent /\ ~wanderingAlertSent /\ dogDetected
    /\ now - lastSeenAnywhereTime >= DISAPPEARED_MS
    /\ now - lastSeenInZoneTime >= GLOBAL_OUTSIDE_MS
    /\ lastSeenAnywhereTime - lastSeenInZoneTime = 20000
    /\ \E tid \in DOMAIN trackOutsideSince :
          /\ KnownTrackOutside(tid, trackOutsideSince, trackSeenInside,
                               trackSeenInsideSince, now)
          /\ now - trackOutsideSince[tid] >= 20000 + DISAPPEARED_MS

\* C5: in a session without any presence detection, the second tick (10 s
\* after the start) sends one plain disappeared notification and nothing
\* else, and no other tick and no frame sends anything
C5_EmptyStream ==
    [][/\ (TickStep /\ enabled /\ ~presenceSinceStart) =>
             /\ emitted' = IF checkInterval = startedAt + 2 * CHECK_INTERVAL_MS
                           THEN <<"disappeared">> ELSE << >>
             /\ ~wanderingAlertSent'
       /\ (FrameStep /\ ~presenceSinceStart') => emitted' = << >>]_vars

\* 11 s and more into a session without presence: the alert is latched and
\* the third tick has run in silence
C5_Witness ==
    /\ enabled /\ ~presenceSinceStart
    /\ now - startedAt >= 11000
    /\ checkInterval > now
    /\ disappearedAlertSent /\ ~wanderingAlertSent
    /\ emitted = << >>

\* C6: a frame with a presence detection and none in the zone, processed
\* when a known track has been outside for PER_TRACK_OUTSIDE_MS and the
\* last in-zone sighting is GLOBAL_OUTSIDE_MS old, leaves the wandering
\* flag latched and sends one wandering notification unless the flag was
\* latched before; every wandering notification latches a flag that was
\* clear; and an in-zone frame that finds the flag latched sends exactly
\* one returned notification
C6_WanderingScenario ==
    [][/\ (FrameStep /\ dogDetected' /\ ~dogInZone' /\ WanderingConditionNow') =>
             /\ wanderingAlertSent'
             /\ Sends("wandering", emitted') = ~wanderingAlertSent
       /\ Sends("wandering", emitted') =>
             /\ ~wanderingAlertSent /\ wanderingAlertSent'
             /\ emitted' = <<"wandering">>
       /\ (FrameStep /\ dogInZone' /\ wanderingAlertSent) =>
             /\ emitted' = <<"returned">>
             /\ ~wanderingAlertSent']_vars

\* the frame that completes the scenario has sent the wandering notification
C6_Witness ==
    /\ emitted = <<"wandering">>
    /\ wanderingAlertSent /\ dogDetected /\ ~dogInZone
    /\ lastSeenAnywhereTime = now
    /\ checkInterval = now
    /\ WanderingConditionNow

\* C7 as stated: the two flags are never both true
C7_MutuallyExclusive == ~(wanderingAlertSent /\ disappearedAlertSent)

\* C7 amended: one tick sends at most one notification and latches at most
\* one flag, and a tick that sends a disappearance notification leaves the
\* wandering flag as it was
C7_OneAlertPerTick ==
    [][TickStep =>
          /\ Len(emitted') <= 1
          /\ ~(/\ ~wanderingAlertSent /\ wanderingAlertSent'
               /\ ~disappearedAlertSent /\ disappearedAlertSent')
          /\ SendsDisappearance(emitted') => wanderingAlertSent' = wanderingAlertSent]_vars

\* a tick has latched the disappearance alone although the wandering
\* condition held too
C7_Witness ==
    /\ Len(emitted) = 1 /\ IsDisappearance(emitted[1])
    /\ disappearedAlertSent /\ ~wanderingAlertSent
    /\ dogDetected /\ WanderingConditionNow

\* C8 as stated: a frame sends nothing but returned
C8_FramesSendOnlyReturned ==
    [][FrameStep => \A i \in 1..Len(emitted') : emitted'[i] = "returned"]_vars

\* C8 amended: a frame sends at most one notification, never a
\* disappearance: returned for a stable in-zone detection, or wandering
\* for a presence outside the zone while the flag was not latched
C8_FramesSendNoDisappearance ==
    [][/\ FrameStep =>
             /\ emitted' \in {<< >>, <<"returned">>, <<"wandering">>}
             /\ emitted' = <<"returned">> => dogInZone'
             /\ emitted' = <<"wandering">> =>
                    (dogDetected' /\ ~dogInZone' /\ ~wanderingAlertSent)
       /\ SendsDisappearance(emitted') => TickStep]_vars

\* a frame has sent the wandering notification: no tick has run at this
\* instant yet
C8_Witness ==
    /\ emitted = <<"wandering">>
    /\ wanderingAlertSent /\ ~disappearedAlertSent
    /\ checkInterval = now
    /\ lastSeenAnywhereTime = now

\* C9: while monitoring is disabled no timer is live, and until the next
\* start no step sends a notification or changes the monitor state or the
\* per-track maps
C9_QuietAfterStop ==
    /\ [](~enabled => checkInterval = Null)
    /\ [][(~enabled /\ ~StartStep) =>
             /\ emitted' = << >>
             /\ UNCHANGED <<monitorVars, trackVars, checkInterval>>]_vars

\* a session was stopped, a frame arrived afterwards, and a timer period
\* has gone by
C9_Witness ==
    /\ ~enabled /\ starts > 0 /\ frameIgnored
    /\ now >= startedAt + CHECK_INTERVAL_MS
    /\ lastSeenAnywhereTime = Null
    /\ trackLastSeen = EmptyMap

\* C10 as stated: a start puts the start time in both last-seen fields
C10_StartSetsBothTimes ==
    [][StartStep =>
          /\ lastSeenAnywhereTime' = now'
          /\ lastSeenInZoneTime' = now']_vars

\* C10 amended: a start puts the start time in lastSeenAnywhereTime and 0
\* in lastSeenInZoneTime, and clears the four flags
C10_StartBaseline ==
    [][StartStep =>
          /\ enabled'
          /\ lastSeenAnywhereTime' = now'
          /\ lastSeenInZoneTime' = 0
          /\ ~wanderingAlertSent' /\ ~disappearedAlertSent'
          /\ ~dogDetected' /\ ~dogInZone']_vars

\* the second start, made after sightings of the first session
C10_Witness ==
    /\ starts = 2 /\ enabled
    /\ startedAt = now /\ checkInterval = now + CHECK_INTERVAL_MS
    /\ lastSeenAnywhereTime = now /\ lastSeenInZoneTime = 0
    /\ ~presenceSinceStart
    /\ trackSeenInsideHits # EmptyMap

\* C11: a stop, and the start that follows it, leave every per-track map
\* empty
C11_NoTrackMemoryLeft ==
    [][(StopStep \/ StartStep) =>
          /\ trackLastSeen' = EmptyMap
          /\ trackOutsideSince' = EmptyMap
          /\ trackSeenInside' = EmptyMap
          /\ trackSeenInsideSince' = EmptyMap
          /\ trackSeenInsideHits' = EmptyMap]_vars

\* C12: while disappearedAlertSent is true no step sends a disappeared or
\* disappeared_after_outside notification, and the flag goes back to false
\* only on a frame with a presence detection, on a start or on a stop
C12_DisappearedDebounce ==
    [][/\ disappearedAlertSent => ~SendsDisappearance(emitted')
       /\ (disappearedAlertSent /\ ~disappearedAlertSent')
              => ((FrameStep /\ dogDetected') \/ StartStep \/ StopStep)]_vars

\* a session with a sighting: the subject has been unseen for 15 s, the
\* alert is latched and the tick after the alerting one has run in silence
C12_Witness ==
    /\ enabled /\ presenceSinceStart
    /\ disappearedAlertSent
    /\ now - lastSeenAnywhereTime >= DISAPPEARED_MS + CHECK_INTERVAL_MS
    /\ checkInterval > now
    /\ emitted = << >>

\* C13: a frame with a presence detection and no stable in-zone detection
\* puts the clock in lastSeenAnywhereTime, sets dogDetected, leaves
\* disappearedAlertSent false, keeps a latched wanderingAlertSent, leaves
\* lastSeenInZoneTime alone and sends no returned notification
C13_PresenceOutsideZone ==
    [][(FrameStep /\ dogDetected' /\ ~dogInZone') =>
          /\ lastSeenAnywhereTime' = now
          /\ ~disappearedAlertSent'
          /\ wanderingAlertSent => wanderingAlertSent'
          /\ lastSeenInZoneTime' = lastSeenInZoneTime
          /\ ~Sends("returned", emitted')]_vars

\* after both alerts were raised, a presence outside the zone has dropped
\* the disappeared flag and kept the wandering flag
C13_Witness ==
    /\ enabled /\ dogDetected /\ ~dogInZone
    /\ lastSeenAnywhereTime = now
    /\ lastSeenInZoneTime # now
    /\ pendingDisappearance /\ ~disappearedAlertSent
    /\ wanderingAlertSent
    /\ emitted = << >>

\* C14: a step that sends a wandering notification finds the flag clear,
\* and at that instant a known track has had its outside timer running for
\* PER_TRACK_OUTSIDE_MS, the last in-zone sighting is GLOBAL_OUTSIDE_MS old
\* and dogDetected is true
C14_WanderingPreconditions ==
    [][Sends("wandering", emitted') =>
          /\ ~wanderingAlertSent
          /\ dogDetected'
          /\ now' - OrZero(lastSeenInZoneTime') >= GLOBAL_OUTSIDE_MS
          /\ \E tid \in DOMAIN trackOutsideSince' :
                /\ trackOutsideSince'[tid] # 0
                /\ now' - trackOutsideSince'[tid] >= PER_TRACK_OUTSIDE_MS
                /\ Known(tid, trackSeenInside', trackSeenInsideSince', now')]_vars

\* a tick has sent the wandering notification
C14_Witness ==
    /\ emitted = <<"wandering">>
    /\ wanderingAlertSent /\ dogDetected
    /\ checkInterval = now + CHECK_INTERVAL_MS
    /\ lastSeenAnywhereTime < now

\* C15: a tick that finds DISAPPEARED_MS without presence and the flag
\* clear sends exactly one notification, disappeared_after_outside if a
\* known track has an outside timer (however young) and disappeared
\* otherwise, latches disappearedAlertSent and leaves the wandering flag
\* as it was
C15_DisappearedClassification ==
    [][(/\ TickStep
        /\ enabled
        /\ ~disappearedAlertSent
        /\ now - OrZero(lastSeenAnywhereTime) >= DISAPPEARED_MS) =>
          /\ emitted' =
                IF \E tid \in DOMAIN trackOutsideSince :
                       /\ trackOutsideSince[tid] # 0
                       /\ Known(tid, trackSeenInside, trackSeenInsideSince, now)
                THEN <<"disappeared_after_outside">>
                ELSE <<"disappeared">>
          /\ disappearedAlertSent'
          /\ wanderingAlertSent' = wanderingAlertSent]_vars

\* disappeared_after_outside was sent for a track whose outside timer is
\* younger than PER_TRACK_OUTSIDE_MS
C15_Witness ==
    /\ emitted = <<"disappeared_after_outside">>
    /\ disappearedAlertSent
    /\ \E tid \in DOMAIN trackOutsideSince :
          /\ Known(tid, trackSeenInside, trackSeenInsideSince, now)
          /\ now - trackOutsideSince[tid] < PER_TRACK_OUTSIDE_MS

\* C16: the response of a request, whatever its outcome, changes nothing
\* but the set of awaited requests, and the request is not made again; a
\* step that sends notifications posts one request for each if the URL is
\* configured and none if it is not; and in either case the sending step
\* has latched the wandering or disappeared flag, or cleared both for a
\* returned notification
C16_DispatchLeavesStateAlone ==
    /\ [](/\ Sends("wandering", emitted) => wanderingAlertSent
          /\ SendsDisappearance(emitted) => disappearedAlertSent
          /\ Sends("returned", emitted) => (~wanderingAlertSent /\ ~disappearedAlertSent))
    /\ [][/\ ResponseStep =>
                /\ UNCHANGED <<now, monitorVars, trackVars, checkInterval, apiBaseUrl>>
                /\ emitted' = << >>
                /\ Len(inFlight') = Len(inFlight) - 1
          /\ (~ResponseStep /\ ~StartStep) =>
                inFlight' = inFlight \o (IF apiBaseUrl = NoUrl THEN << >> ELSE emitted')
          /\ StartStep => inFlight' = inFlight]_vars

\* the request of the disappeared notification has failed; the flag is
\* still latched and nothing is awaited
C16_Witness ==
    /\ delivery = [kind |-> "disappeared", outcome |-> "failed"]
    /\ enabled /\ disappearedAlertSent
    /\ apiBaseUrl = Url
    /\ inFlight = << >>
    /\ emitted = << >>

\* C17: a frame without a detections array, and a frame with a stable
\* detection that has no bbox while a zone is defined, leave the monitor
\* state and the per-track maps as they were
C17_MalformedFrameSkipped ==
    [][MalformedFrameStep => UNCHANGED <<monitorVars, trackVars>>]_vars

\* C18: after a frame is processed no last-seen entry is older than
\* PRUNE_MS, and a track whose last-seen entry was older than that, and
\* that the frame did not show again, has no entry left in any of the five
\* per-track maps
C18_Pruning ==
    [][FrameStep =>
          \A tid \in TrackIds :
              /\ Has(trackLastSeen', tid) => now - trackLastSeen'[tid] <= PRUNE_MS
              /\ (/\ Has(trackLastSeen, tid)
                  /\ now - trackLastSeen[tid] > PRUNE_MS
                  /\ ~(Has(trackLastSeen', tid) /\ trackLastSeen'[tid] = now))
                    => /\ ~Has(trackLastSeen', tid)
                       /\ ~Has(trackOutsideSince', tid)
                       /\ ~Has(trackSeenInside', tid)
                       /\ ~Has(trackSeenInsideSince', tid)
                       /\ ~Has(trackSeenInsideHits', tid)]_vars

\* in the session in which track 1 was last seen 50 s before the model
\* starts, a frame that came 15 s or more into the model has emptied the maps
C18_Witness ==
    /\ enabled /\ starts = 1
    /\ startedAt = Epoch - 55000
    /\ now >= Epoch + 15000
    /\ trackLastSeen = EmptyMap
    /\ trackOutsideSince = EmptyMap
    /\ trackSeenInside = EmptyMap
    /\ trackSeenInsideSince = EmptyMap
    /\ trackSeenInsideHits = EmptyMap

C20_StableByHitsOrInsideHits ==
    [][lastFrame'.result = "processed" =>
          UsedAsStable(lastFrame'.stableIds
                       \cup {tid \in lastFrame'.unstableIds : Has(trackSeenInsideHits, tid)})]_vars

\* C20 amended: the detections a frame uses as stable are those with hits
\* of MIN_HITS or more, whatever inside hits their track has
C20_StableByHitsOnly ==
    [][lastFrame'.result = "processed" => UsedAsStable(lastFrame'.stableIds)]_vars

\* a frame with one detection of track 1, hits below MIN_HITS, was
\* processed while the track had inside hits: presence is recorded, the
\* track's last-seen entry is not
C20_Witness ==
    /\ lastFrame.result = "processed"
    /\ lastFrame.unstableIds = {1} /\ lastFrame.stableIds = {}
    /\ Has(trackSeenInsideHits, 1)
    /\ Has(trackLastSeen, 1) /\ trackLastSeen[1] < now
    /\ lastSeenAnywhereTime = now
    /\ dogDetected /\ ~dogInZone

\* C21: for a polygon of fewer than 3 points (none at all, empty, one
\* point, two points) isPointInPolygon returns true for every point and
\* isDogInSafeZone returns true for every detection
C21_NoZoneContainsAll ==
    (probe.call # "none" /\ probe.polygon \in ShortPolygons) => probe.returned

\* isDogInSafeZone has returned true for a box in the frame's corner and a
\* polygon of two points
C21_Witness ==
    /\ probe.call = "isDogInSafeZone"
    /\ probe.polygon = <<Pt(0, 0), Pt(Scale, Scale)>>
    /\ probe.bbox = BoxOutside
    /\ probe.returned

\* C22: in the unit square (0.5, 0.5) is inside and (1.5, 0.5) is outside;
\* for a polygon of 3 points or more isPointInPolygon returns true exactly
\* when the ray from the point towards +x crosses an odd number of edges;
\* and calling it again with the same arguments returns the same
C22_RayCasting ==
    /\ [](probe.call = "isPointInPolygon" =>
            /\ (probe.polygon = UnitSquare /\ probe.point = Pt(Scale \div 2, Scale \div 2))
                  => probe.returned
            /\ (probe.polygon = UnitSquare /\ probe.point = Pt((3 * Scale) \div 2, Scale \div 2))
                  => ~probe.returned
            /\ probe.polygon \notin ShortPolygons =>
                  probe.returned = (EdgesCrossed(probe.point, probe.polygon) % 2 = 1))
    /\ [][(probe.call = "isPointInPolygon" /\ probe'.call = "isPointInPolygon")
             => probe'.returned = probe.returned]_vars

\* the vertex (0, 0) of the unit square was found inside: of the two edges
\* that meet there the ray crosses none, and it crosses the edge x = 1
C22_Witness ==
    /\ probe.call = "isPointInPolygon"
    /\ probe.polygon = UnitSquare
    /\ probe.point = Pt(0, 0)
    /\ probe.returned
    /\ EdgesCrossed(probe.point, probe.polygon) = 1

\* C23: after a start every coordinate of the stored safe zone lies in
\* [0, 1]
C23_StoredZoneNormalised ==
    enabled => \A i \in 1..Len(safeZone) :
                  /\ 0 <= safeZone[i].x /\ safeZone[i].x <= 1 * Scale
                  /\ 0 <= safeZone[i].y /\ safeZone[i].y <= 1 * Scale

\* C24: an outside timer is set to the clock, together with the track's
\* last-seen entry; once set it keeps its value through every step but a
\* frame with a stable in-zone detection of that track, a frame that
\* prunes the track, and the reset of the maps by a stop or a start; so a
\* track's outside timer is never later than its last-seen entry
C24_OutsideSinceFixed ==
    /\ [](\A tid \in TrackIds :
            (Has(trackOutsideSince, tid) /\ Has(trackLastSeen, tid))
                => trackOutsideSince[tid] <= trackLastSeen[tid])
    /\ [][\A tid \in TrackIds :
            /\ (~Has(trackOutsideSince, tid) /\ Has(trackOutsideSince', tid)) =>
                  /\ trackOutsideSince'[tid] = now
                  /\ Has(trackLastSeen', tid) /\ trackLastSeen'[tid] = now
            /\ Has(trackOutsideSince, tid) =>
                  \/ Has(trackOutsideSince', tid)
                        /\ trackOutsideSince'[tid] = trackOutsideSince[tid]
                  \/ FrameStep /\ InZoneHitOf(tid)
                  \/ FrameStep /\ PrunedStale(tid)
                  \/ StopStep
                  \/ StartStep]_vars

\* in a session started afresh, track 1 is seen outside the zone again,
\* later than when its outside timer was set
C24_Witness ==
    /\ enabled /\ startedAt >= Epoch
    /\ dogDetected /\ ~dogInZone
    /\ Has(trackOutsideSince, 1) /\ Has(trackLastSeen, 1)
    /\ trackLastSeen[1] = now
    /\ trackOutsideSince[1] < now
    /\ trackOutsideSince[1] >= startedAt

\* C25 as stated: after a frame is processed every stable detection with
\* a track id has the clock as its track's last-seen entry
C25_EveryStableRefreshed ==
    [][lastFrame'.result = "processed" =>
          \A tid \in StableIdsFrom(1, Len(lastFrame'.stable)) :
              Has(trackLastSeen', tid) /\ trackLastSeen'[tid] = now]_vars

\* C25 amended: the stable detections are examined in order up to the
\* first one in the zone.  Every examined detection with a track id has
\* the clock as its last-seen entry; the one in the zone has its inside hit
\* counted and its outside timer removed; a track examined outside the
\* zone only has an outside timer; and a track that shows only after the
\* first in-zone detection keeps its entries as they were
C25_StableRefreshedUpToInZone ==
    [][lastFrame'.result = "processed" =>
          \E k \in {LastExamined} :
              /\ \A tid \in StableIdsFrom(1, k) :
                    Has(trackLastSeen', tid) /\ trackLastSeen'[tid] = now
              /\ (k > 0 /\ StableInZone(k)) =>
                    /\ dogInZone'
                    /\ \A tid \in StableIdsFrom(k, k) :
                          InZoneHitOf(tid) /\ ~Has(trackOutsideSince', tid)
                    /\ \A tid \in StableIdsFrom(1, k - 1) \ StableIdsFrom(k, k) :
                          Has(trackOutsideSince', tid)
              /\ ~(k > 0 /\ StableInZone(k)) =>
                    /\ ~dogInZone'
                    /\ \A tid \in StableIdsFrom(1, k) : Has(trackOutsideSince', tid)
              /\ \A tid \in StableIdsFrom(k + 1, Len(lastFrame'.stable)) \ StableIdsFrom(1, k) :
                    TrackLeftAlone(tid)]_vars

\* a frame with an anonymous dog in the zone followed by a stable
\* detection of track 1 was processed: track 1 has no last-seen entry
C25_Witness ==
    /\ lastFrame.result = "processed"
    /\ Len(lastFrame.stable) = 2
    /\ lastFrame.stable[1].id = NoId /\ lastFrame.stable[1].bbox = BoxInside
    /\ lastFrame.stable[2].id = 1 /\ lastFrame.stable[2].bbox = BoxOutside
    /\ safeZone # << >>
    /\ dogInZone
    /\ ~Has(trackLastSeen, 1) /\ ~Has(trackOutsideSince, 1)

\* C26 as stated: a track's seen-inside timestamp is written only by the
\* in-zone hit that brings its inside hits to MIN_INSIDE_HITS_TO_REGISTER
C26_WrittenAtCrossingOnly ==
    [][\A tid \in TrackIds :
          (/\ Has(trackSeenInsideSince', tid)
           /\ ~(Has(trackSeenInsideSince, tid)
                 /\ trackSeenInsideSince'[tid] = trackSeenInsideSince[tid]))
             => /\ Has(trackSeenInsideHits', tid)
                /\ trackSeenInsideHits'[tid] = MIN_INSIDE_HITS_TO_REGISTER]_vars

\* C26 amended: every in-zone hit that leaves the track's inside hits at
\* MIN_INSIDE_HITS_TO_REGISTER or above marks the track seen inside and
\* puts the clock in its seen-inside timestamp; an in-zone hit below the
\* threshold leaves the timestamp alone; nothing else writes it; and it is
\* removed only by the two prune passes of a frame
C26_WrittenAtEveryConfirmedHit ==
    [][\A tid \in TrackIds :
          /\ (FrameStep /\ InZoneHitOf(tid)) =>
                IF trackSeenInsideHits'[tid] >= MIN_INSIDE_HITS_TO_REGISTER
                THEN /\ Has(trackSeenInsideSince', tid)
                     /\ trackSeenInsideSince'[tid] = now
                     /\ Has(trackSeenInside', tid) /\ trackSeenInside'[tid]
                ELSE /\ Has(trackSeenInsideSince', tid) = Has(trackSeenInsideSince, tid)
                     /\ Has(trackSeenInsideSince, tid) =>
                            trackSeenInsideSince'[tid] = trackSeenInsideSince[tid]
          /\ (/\ Has(trackSeenInsideSince', tid)
              /\ ~(Has(trackSeenInsideSince, tid)
                    /\ trackSeenInsideSince'[tid] = trackSeenInsideSince[tid]))
                => /\ FrameStep /\ InZoneHitOf(tid)
                   /\ trackSeenInsideHits'[tid] >= MIN_INSIDE_HITS_TO_REGISTER
                   /\ trackSeenInsideSince'[tid] = now
          /\ (Has(trackSeenInsideSince, tid) /\ ~Has(trackSeenInsideSince', tid))
                => /\ FrameStep
                   /\ \/ PrunedStale(tid)
                      \/ now - trackSeenInsideSince[tid] > KNOWN_PET_INZONE_TTL_MS]_vars

\* track 1, confirmed inside before the model starts, is seen in the zone
\* once more: its third inside hit has moved the timestamp to the clock
C26_Witness ==
    /\ enabled /\ starts = 1 /\ startedAt < Epoch
    /\ dogInZone
    /\ Has(trackSeenInsideHits, 1)
    /\ trackSeenInsideHits[1] = MIN_INSIDE_HITS_TO_REGISTER + 1
    /\ Has(trackSeenInsideSince, 1) /\ trackSeenInsideSince[1] = now
    /\ now > Epoch

\* C27: a processed frame whose presence detections all have hits below
\* MIN_HITS puts the clock in lastSeenAnywhereTime and sets dogDetected,
\* updates no per-track entry, leaves lastSeenInZoneTime alone and sends no
\* returned notification; a processed frame without a presence detection
\* clears dogDetected and dogInZone, changes nothing else and sends nothing
C27_TwoTierGating ==
    [][(lastFrame'.result = "processed" /\ lastFrame'.stableIds = {}) =>
          IF lastFrame'.unstableIds # {}
          THEN /\ lastSeenAnywhereTime' = now
               /\ dogDetected'
               /\ NoTrackUpdated
               /\ lastSeenInZoneTime' = lastSeenInZoneTime
               /\ ~Sends("returned", emitted')
          ELSE /\ ~dogDetected' /\ ~dogInZone'
               /\ NoTrackUpdated
               /\ UNCHANGED <<enabled, safeZone, lastSeenInZoneTime, lastSeenAnywhereTime,
                              wanderingAlertSent, disappearedAlertSent>>
               /\ emitted' = << >>]_vars

\* in a session started afresh, track 1 was seen outside the zone and is
\* shown 5 s later with too few hits: the disappearance timer starts
\* again, and the track's last-seen entry and outside timer stay where
\* they were
C27_Witness ==
    /\ lastFrame.result = "processed"
    /\ lastFrame.unstableIds = {1} /\ lastFrame.stableIds = {}
    /\ startedAt >= Epoch
    /\ lastSeenAnywhereTime = now
    /\ dogDetected /\ ~dogInZone
    /\ Has(trackLastSeen, 1) /\ trackLastSeen[1] = now - CHECK_INTERVAL_MS
    /\ Has(trackOutsideSince, 1) /\ trackOutsideSince[1] = now - CHECK_INTERVAL_MS
    /\ emitted = << >>

\* C28: exactly one interval timer is live while monitoring is enabled,
\* the one alertMonitor.checkInterval refers to, and none while it is
\* disabled; every start, with or without a stop before it, leaves only
\* the timer it has set; and a tick is followed by no other before the
\* clock moves on
C28_OneTimer ==
    /\ [](/\ Cardinality(timers) = (IF enabled THEN 1 ELSE 0)
          /\ enabled => (checkInterval # Null /\ timers = {TimerHandle}))
    /\ [][/\ StartStep => timers' = {starts'}
          /\ TickStep => (now >= checkInterval /\ now < checkInterval')]_vars

\* monitoring was started a second time, later than the first: the only
\* live timer is the one of the second start, and its first tick is a
\* period away
C28_Witness ==
    /\ enabled /\ starts = 2
    /\ timers = {2}
    /\ startedAt > Epoch
    /\ now = startedAt
    /\ checkInterval = now + CHECK_INTERVAL_MS

\* C29: a step that sends a wandering notification finds the subject
\* seen less than DISAPPEARED_MS ago
C29_WanderingOnlyWhileVisible ==
    [][Sends("wandering", emitted') =>
          now' - OrZero(lastSeenAnywhereTime') < DISAPPEARED_MS]_vars

\* C30: every track with an entry in the outside-timer, seen-inside,
\* seen-inside-timestamp or inside-hits map has a last-seen entry
C30_EveryTrackHasLastSeen ==
    (DOMAIN trackOutsideSince \cup DOMAIN trackSeenInside
        \cup DOMAIN trackSeenInsideSince \cup DOMAIN trackSeenInsideHits)
            \subseteq DOMAIN trackLastSeen

====
